---- MODULE Spec2Model ----
(***************************************************************************)
(* The content script of app/scripts/contentscript.js: the activation gate *)
(* (shouldInjectProvider), the two multiplexed transports set up by        *)
(* setupStreams, the three forwarded channels, the onboarding sink and the *)
(* phishing sink.                                                          *)
(***************************************************************************)
EXTENDS Integers, Sequences, FiniteSets, TLC

\* ------------------------------------------------------------------ bounds

\* Frames the two peers deliver to the content script in one run.
MaxFrames == 2

\* ---------------------------------------------------------- static wiring

Sides == {"page", "ext"}

Other(s) == IF s = "page" THEN "ext" ELSE "page"

\* forwardTrafficBetweenMuxers is called for exactly these names.
Forwarded == {"provider", "publicConfig", "cap"}

\* Variant: the onboarding substream created on extensionMux.
RegisteredOnboardingOnExt(s) ==
    IF s = "page" THEN Forwarded
                  ELSE Forwarded \cup {"onboarding", "phishing"}

\* Variant: both sinks read from extensionMux.
SinkSideAllExt(n) == "ext"

\* Variant: both sinks read from pageMux.
SinkSideAllPage(n) == "page"

\* The multiplexer each sink's substream is created on:
\* pageMux.createStream('onboarding'), extensionMux.createStream('phishing').
SinkSide(n) == IF n = "onboarding" THEN "page" ELSE "ext"

\* The names createStream is called with on each multiplexer.
Registered(s) ==
    Forwarded \cup {n \in {"onboarding", "phishing"} : SinkSide(n) = s}

\* Names a peer may tag a frame with; "unknown" stands for any name that
\* no createStream call uses.
WireNames == Forwarded \cup {"onboarding", "phishing", "unknown"}

\* Payloads: a falsy chunk, and objects with a type field.
Falsy == [falsy |-> TRUE, type |-> ""]
Msg(t) == [falsy |-> FALSE, type |-> t]
Data == {Falsy, Msg("registerOnboarding"), Msg("other")}

\* The payloads the peers send under each name: the onboarding sink reads
\* its chunks, every other consumer treats them as opaque.
DataFor(n) ==
    IF n = "onboarding" THEN Data
    ELSE IF n \in Forwarded THEN {Msg("registerOnboarding"), Msg("other")}
    ELSE {Msg("other")}

\* Labels handed to logStreamDisconnectWarning: one per multiplexer pump,
\* one per forwarded channel.
MuxLabel(s) == IF s = "page" THEN "Inpage Multiplex" ELSE "Background Multiplex"
Labels == {MuxLabel(s) : s \in Sides} \cup Forwarded

\* Everything that consumes streams: the two multiplexer pumps, the three
\* forwarder pumps, the onboarding pump and the phishing listener. A
\* channel's pipeline carries the channel's name.
Pipelines == Labels \cup {"onboarding", "phishing"}

VARIABLES
    doc,            \* the document: doctype, top-level element, href
    readyState,     \* document.readyState
    pc,             \* position of the module's top-level code and of start()
    injected,       \* "no" | "ok" | "failed": injectScript's outcome
    transport,      \* pageStream / extensionStream: "none" | "open" | "ended" | "errored"
    mux,            \* pageMux / extensionMux: "none" | "created" | "open" (piped) | "destroyed"
    chan,           \* chan[s][n]: the substream n of mux s, "open" | "destroyed"
    rbuf,           \* rbuf[s][n]: frames demultiplexed into the substream, not yet consumed
    recv,           \* recv[s][n]: payloads of the frames tagged n the peer on side s delivered
    out,            \* out[s][n]: payloads of the frames tagged n written to the transport of side s
    terminal,       \* terminal[p]: calls of the completion callback of pipeline p
    addCurrentTab,  \* the onboarding Writable: "none" | "open" | "destroyed"
    obInflight,     \* the chunks whose sendMessage call awaits its response
    sendCalls,      \* every extension.runtime.sendMessage call, in order
    obLog,          \* every completion of addCurrentTab.write: chunk, outcome, response
    phishListener,  \* the once('data') listener is still attached
    redirects       \* calls of redirectToPhishingWarning

streamVars == <<transport, mux, chan, rbuf, recv, out, terminal, addCurrentTab,
                obInflight, sendCalls, obLog, phishListener, redirects>>
docVars == <<doc, readyState, pc, injected>>
vars == <<docVars, streamVars>>

\* ------------------------------------------------------- activation gate
\* Text is a sequence of one-character strings, so that the regular
\* expressions and toLowerCase are computed on the characters.

blacklistedDomains ==
    << <<"u", "s", "c", "o", "u", "r", "t", "s", ".", "g", "o", "v">>,
       <<"d", "r", "o", "p", "b", "o", "x", ".", "c", "o", "m">>,
       <<"w", "e", "b", "b", "y", "a", "w", "a", "r", "d", "s", ".", "c", "o", "m">>,
       <<"c", "d", "n", ".", "s", "h", "o", "p", "i", "f", "y", ".", "c", "o", "m", "/", "s", "/", "j", "a", "v", "a", "s", "c", "r", "i", "p", "t", "s", "/", "t", "r", "i", "c", "o", "r", "d", "e", "r", "/", "x", "t", "l", "d", "-", "r", "e", "a", "d", "-", "o", "n", "l", "y", "-", "f", "r", "a", "m", "e", ".", "h", "t", "m", "l">>,
       <<"a", "d", "y", "e", "n", ".", "c", "o", "m">>,
       <<"g", "r", "a", "v", "i", "t", "y", "f", "o", "r", "m", "s", ".", "c", "o", "m">>,
       <<"h", "a", "r", "b", "o", "u", "r", "a", "i", "r", ".", "c", "o", "m">>,
       <<"a", "n", "i", ".", "g", "a", "m", "e", "r", ".", "c", "o", "m", ".", "t", "w">>,
       <<"b", "l", "u", "e", "s", "k", "y", "b", "o", "o", "k", "i", "n", "g", ".", "c", "o", "m">>,
       <<"s", "h", "a", "r", "e", "f", "i", "l", "e", ".", "c", "o", "m">> >>

\* https://example.com/page
UrlExamplePage ==
    <<"h", "t", "t", "p", "s", ":", "/", "/", "e", "x", "a", "m", "p", "l", "e", ".", "c", "o", "m", "/", "p", "a", "g", "e">>

\* https://www.dropbox.com/anything
UrlDropboxWww ==
    <<"h", "t", "t", "p", "s", ":", "/", "/", "w", "w", "w", ".", "d", "r", "o", "p", "b", "o", "x", ".", "c", "o", "m", "/", "a", "n", "y", "t", "h", "i", "n", "g">>

\* https://example.com/report.pdf
UrlReportPdf ==
    <<"h", "t", "t", "p", "s", ":", "/", "/", "e", "x", "a", "m", "p", "l", "e", ".", "c", "o", "m", "/", "r", "e", "p", "o", "r", "t", ".", "p", "d", "f">>

\* http://example.org/feed.xml
UrlFeedXml ==
    <<"h", "t", "t", "p", ":", "/", "/", "e", "x", "a", "m", "p", "l", "e", ".", "o", "r", "g", "/", "f", "e", "e", "d", ".", "x", "m", "l">>

\* http://example.org/report.pdf
UrlReportPdfOrg ==
    <<"h", "t", "t", "p", ":", "/", "/", "e", "x", "a", "m", "p", "l", "e", ".", "o", "r", "g", "/", "r", "e", "p", "o", "r", "t", ".", "p", "d", "f">>

\* https://example.com/a.pdf?x=1
UrlPdfWithQuery ==
    <<"h", "t", "t", "p", "s", ":", "/", "/", "e", "x", "a", "m", "p", "l", "e", ".", "c", "o", "m", "/", "a", ".", "p", "d", "f", "?", "x", "=", "1">>

\* https://example.com/a?f=b.pdf
UrlPdfInQuery ==
    <<"h", "t", "t", "p", "s", ":", "/", "/", "e", "x", "a", "m", "p", "l", "e", ".", "c", "o", "m", "/", "a", "?", "f", "=", "b", ".", "p", "d", "f">>

\* http://adyen.com/
UrlAdyen ==
    <<"h", "t", "t", "p", ":", "/", "/", "a", "d", "y", "e", "n", ".", "c", "o", "m", "/">>

\* https://notdropbox.com/
UrlNotDropbox ==
    <<"h", "t", "t", "p", "s", ":", "/", "/", "n", "o", "t", "d", "r", "o", "p", "b", "o", "x", ".", "c", "o", "m", "/">>

\* https://example.com/?q=dropbox.com
UrlDropboxInQuery ==
    <<"h", "t", "t", "p", "s", ":", "/", "/", "e", "x", "a", "m", "p", "l", "e", ".", "c", "o", "m", "/", "?", "q", "=", "d", "r", "o", "p", "b", "o", "x", ".", "c", "o", "m">>

\* https://dropbox.com.evil.org/
UrlDropboxPrefix ==
    <<"h", "t", "t", "p", "s", ":", "/", "/", "d", "r", "o", "p", "b", "o", "x", ".", "c", "o", "m", ".", "e", "v", "i", "l", ".", "o", "r", "g", "/">>

\* file:///home/a.html
UrlFile ==
    <<"f", "i", "l", "e", ":", "/", "/", "/", "h", "o", "m", "e", "/", "a", ".", "h", "t", "m", "l">>

\* https://dropbox.com/?u=http://a
UrlDropboxBypass ==
    <<"h", "t", "t", "p", "s", ":", "/", "/", "d", "r", "o", "p", "b", "o", "x", ".", "c", "o", "m", "/", "?", "u", "=", "h", "t", "t", "p", ":", "/", "/", "a">>

\* https://ani.gamer.com.tw/x
UrlGamer ==
    <<"h", "t", "t", "p", "s", ":", "/", "/", "a", "n", "i", ".", "g", "a", "m", "e", "r", ".", "c", "o", "m", ".", "t", "w", "/", "x">>

\* https://ani.gamerzcom.tw/
UrlGamerWild ==
    <<"h", "t", "t", "p", "s", ":", "/", "/", "a", "n", "i", ".", "g", "a", "m", "e", "r", "z", "c", "o", "m", ".", "t", "w", "/">>

Urls ==
    {UrlExamplePage,
     UrlDropboxWww,
     UrlReportPdf,
     UrlFeedXml,
     UrlReportPdfOrg,
     UrlPdfWithQuery,
     UrlPdfInQuery,
     UrlAdyen,
     UrlNotDropbox,
     UrlDropboxInQuery,
     UrlDropboxPrefix,
     UrlFile,
     UrlDropboxBypass,
     UrlGamer,
     UrlGamerWild}


HtmlName == <<"h", "t", "m", "l">>

\* doctype: <<>> when the document has none, else <<name>>.
Doctypes == {<<>>, <<HtmlName>>, <<(<<"H", "T", "M", "L">>)>>, <<(<<"s", "v", "g">>)>>}

\* documentElement: <<>> when the document has none, else <<nodeName>>.
Elements ==
    {<<>>, <<(<<"H", "T", "M", "L">>)>>, <<HtmlName>>, <<(<<"H", "t", "m", "l">>)>>,
     <<(<<"s", "v", "g">>)>>, <<(<<"S", "V", "G">>)>>}

Docs == [doctype : Doctypes, elem : Elements, href : Urls]

Min(S) == CHOOSE x \in S : \A y \in S : x <= y

StartsWithAt(u, i, p) ==
    /\ i >= 1
    /\ i + Len(p) - 1 <= Len(u)
    /\ \A j \in 1..Len(p) : u[i + j - 1] = p[j]

EndsWith(u, p) == Len(p) <= Len(u) /\ StartsWithAt(u, Len(u) - Len(p) + 1, p)

\* window.location: where the authority of href starts (after the first "://").
AuthorityStart(u) ==
    Min({i + 3 : i \in {k \in 1..Len(u) : StartsWithAt(u, k, <<":", "/", "/">>)}}
        \cup {Len(u) + 1})

PathStart(u) ==
    Min({k \in AuthorityStart(u)..Len(u) : u[k] \in {"/", "?", "#"}} \cup {Len(u) + 1})

PathEnd(u) ==
    Min({k \in PathStart(u)..Len(u) : u[k] \in {"?", "#"}} \cup {Len(u) + 1})

\* window.location.pathname
Pathname(u) ==
    IF PathEnd(u) = PathStart(u) THEN <<"/">> ELSE SubSeq(u, PathStart(u), PathEnd(u) - 1)

\* window.location.hostname
Hostname(u) == SubSeq(u, AuthorityStart(u), PathStart(u) - 1)

ToLowerChar(c) ==
    CASE c = "A" -> "a" [] c = "B" -> "b" [] c = "C" -> "c" [] c = "D" -> "d"
      [] c = "E" -> "e" [] c = "F" -> "f" [] c = "G" -> "g" [] c = "H" -> "h"
      [] c = "I" -> "i" [] c = "J" -> "j" [] c = "K" -> "k" [] c = "L" -> "l"
      [] c = "M" -> "m" [] c = "N" -> "n" [] c = "O" -> "o" [] c = "P" -> "p"
      [] c = "Q" -> "q" [] c = "R" -> "r" [] c = "S" -> "s" [] c = "T" -> "t"
      [] c = "U" -> "u" [] c = "V" -> "v" [] c = "W" -> "w" [] c = "X" -> "x"
      [] c = "Y" -> "y" [] c = "Z" -> "z" [] OTHER -> c

ToLowerCase(t) == [i \in 1..Len(t) |-> ToLowerChar(t[i])]

doctypeCheck(d) ==
    IF d.doctype # <<>> THEN d.doctype[1] = HtmlName ELSE TRUE

prohibitedTypes == << <<".", "x", "m", "l">>, <<".", "p", "d", "f">> >>

\* Variant: the patterns tested against href instead of pathname.
suffixCheckHref(d) ==
    ~ \E i \in 1..Len(prohibitedTypes) : EndsWith(d.href, prohibitedTypes[i])

suffixCheck(d) ==
    LET currentUrl == Pathname(d.href)
    IN  ~ \E i \in 1..Len(prohibitedTypes) : EndsWith(currentUrl, prohibitedTypes[i])

\* document.documentElement is null: reading .nodeName raises a TypeError.
documentElementThrows(d) == d.elem = <<>>

documentElementCheck(d) ==
    LET documentElement == d.elem[1]
    IN  IF documentElement # <<>> THEN ToLowerCase(documentElement) = HtmlName ELSE TRUE

\* What a call of documentElementCheck() ends with: "true" | "false" | "throw".
documentElementCheckOutcome(d) ==
    IF documentElementThrows(d) THEN "throw"
    ELSE IF documentElementCheck(d) THEN "true" ELSE "false"

\* String.prototype.replace with a string pattern: the first occurrence only.
ReplaceFirstDot(t) ==
    LET dots == {i \in 1..Len(t) : t[i] = "."}
    IN  IF dots = {} THEN t
        ELSE SubSeq(t, 1, Min(dots) - 1) \o <<"\\", ".">> \o SubSeq(t, Min(dots) + 1, Len(t))

\* The pattern as the RegExp constructor reads it: "\" makes the next
\* character literal, a bare "." matches any character.
RECURSIVE RegexTokens(_)
RegexTokens(t) ==
    IF t = <<>> THEN <<>>
    ELSE IF t[1] = "\\" /\ Len(t) >= 2
         THEN <<[wild |-> FALSE, c |-> t[2]]>> \o RegexTokens(SubSeq(t, 3, Len(t)))
         ELSE <<[wild |-> t[1] = ".", c |-> t[1]]>> \o RegexTokens(Tail(t))

MatchAt(tokens, u, k) ==
    /\ k + Len(tokens) - 1 <= Len(u)
    /\ \A j \in 1..Len(tokens) : tokens[j].wild \/ u[k + j - 1] = tokens[j].c

\* Length of "http://" or "https://" at position i, 0 when neither is there.
SchemeLenAt(u, i) ==
    IF StartsWithAt(u, i, <<"h", "t", "t", "p", "s", ":", "/", "/">>) THEN 8
    ELSE IF StartsWithAt(u, i, <<"h", "t", "t", "p", ":", "/", "/">>) THEN 7
    ELSE 0

\* new RegExp(`(?:https?:\/\/)(?:(?!${blacklistedDomain}).)*$`).test(u)
RegexTest(tokens, u) ==
    \E i \in 1..Len(u) :
        /\ SchemeLenAt(u, i) > 0
        /\ \A k \in (i + SchemeLenAt(u, i))..Len(u) : ~MatchAt(tokens, u, k)

RECURSIVE BlacklistLoop(_, _)
BlacklistLoop(i, currentUrl) ==
    IF i > Len(blacklistedDomains) THEN FALSE
    ELSE LET blacklistedDomain == ReplaceFirstDot(blacklistedDomains[i])
         IN  IF ~RegexTest(RegexTokens(blacklistedDomain), currentUrl) THEN TRUE
             ELSE BlacklistLoop(i + 1, currentUrl)

blacklistedDomainCheck(d) == BlacklistLoop(1, d.href)

\* "true" | "false" | "throw", with the short circuit of && .
shouldInjectProvider(d) ==
    IF ~doctypeCheck(d) THEN "false"
    ELSE IF ~suffixCheck(d) THEN "false"
    ELSE IF documentElementThrows(d) THEN "throw"
    ELSE IF ~documentElementCheck(d) THEN "false"
    ELSE IF blacklistedDomainCheck(d) THEN "false"
    ELSE "true"


\* ------------------------------------------------------------ setupStreams

NoFrames == [s \in Sides |-> [n \in WireNames |-> <<>>]]

NoStreams ==
    /\ transport = [s \in Sides |-> "none"]
    /\ mux = [s \in Sides |-> "none"]
    /\ chan = [s \in Sides |-> [n \in {} |-> "open"]]
    /\ rbuf = [s \in Sides |-> [n \in {} |-> <<>>]]
    /\ recv = NoFrames
    /\ out = NoFrames
    /\ terminal = [p \in Pipelines |-> 0]
    /\ addCurrentTab = "none"
    /\ obInflight = <<>>
    /\ sendCalls = <<>>
    /\ obLog = <<>>
    /\ phishListener = FALSE
    /\ redirects = 0

\* The state setupStreams leaves: both transports wrapped, both multiplexers
\* piped to them, every substream created, both sinks bound.
Wired ==
    [transport |-> [s \in Sides |-> "open"],
     mux |-> [s \in Sides |-> "open"],
     chan |-> [s \in Sides |-> [n \in Registered(s) |-> "open"]],
     rbuf |-> [s \in Sides |-> [n \in Registered(s) |-> <<>>]],
     addCurrentTab |-> "open",
     phishListener |-> TRUE]

setupStreams ==
    /\ transport' = Wired.transport
    /\ mux' = Wired.mux
    /\ chan' = Wired.chan
    /\ rbuf' = Wired.rbuf
    /\ addCurrentTab' = Wired.addCurrentTab
    /\ phishListener' = Wired.phishListener
    /\ UNCHANGED <<recv, out, terminal, obInflight, sendCalls, obLog, redirects>>

\* Variant: the listener is added whatever readyState is.
domIsReadyAlwaysWaits == "domwait"

\* domIsReady: resolved at once, or pending until DOMContentLoaded.
domIsReady == IF readyState \in {"interactive", "complete"} THEN "done" ELSE "domwait"

\* The module's top-level code: the gate, then injectScript and start().
\* injectScript catches its own failure, so start() runs either way.
RunContentScript ==
    /\ pc = "load"
    /\ UNCHANGED <<doc, readyState>>
    /\ \/ /\ shouldInjectProvider(doc) = "throw"
          /\ pc' = "threw"
          /\ UNCHANGED <<injected, streamVars>>
       \/ /\ shouldInjectProvider(doc) = "false"
          /\ pc' = "skipped"
          /\ UNCHANGED <<injected, streamVars>>
       \/ /\ shouldInjectProvider(doc) = "true"
          /\ \E r \in {"ok", "failed"} : injected' = r
          /\ setupStreams
          /\ pc' = domIsReady

\* The positions of the top-level code and of start() at which the script
\* has returned to the event loop; between them it runs to completion.
AtRest == pc \in {"load", "threw", "skipped", "failed", "domwait", "done"}

DOMContentLoaded ==
    /\ AtRest
    /\ readyState = "loading"
    /\ readyState' = "interactive"
    /\ pc' = IF pc = "domwait" THEN "done" ELSE pc
    /\ UNCHANGED <<doc, injected, streamVars>>

WindowLoad ==
    /\ AtRest
    /\ readyState = "interactive"
    /\ readyState' = "complete"
    /\ UNCHANGED <<doc, pc, injected, streamVars>>

\* ------------------------------------------------- start(), step by step
\* The same code as RunContentScript, one statement group per step; pc names
\* the statement group that runs next.

\* Variant: the forwarders connected before the multiplexers are piped.
SetupSequenceForwardFirst ==
    <<"connect", "forward:provider", "forward:publicConfig", "forward:cap",
      "pipe:page", "pipe:ext", "onboarding", "phishing", "domIsReady">>

\* The statement groups of setupStreams and start(), in program order.
SetupSequence ==
    <<"connect", "pipe:page", "pipe:ext", "onboarding",
      "forward:provider", "forward:publicConfig", "forward:cap",
      "phishing", "domIsReady">>

\* The statement group that follows p.
After(p) ==
    LET i == CHOOSE k \in 1..Len(SetupSequence) : SetupSequence[k] = p
    IN  SetupSequence[i + 1]

\* shouldInjectProvider() at the top level.
Gate ==
    /\ pc = "load"
    /\ pc' = CASE shouldInjectProvider(doc) = "throw" -> "threw"
               [] shouldInjectProvider(doc) = "false" -> "skipped"
               [] OTHER -> "inject"
    /\ UNCHANGED <<doc, readyState, injected, streamVars>>

\* injectScript(inpageBundle): a failure is caught and logged.
InjectScript ==
    /\ pc = "inject"
    /\ \E r \in {"ok", "failed"} : injected' = r
    /\ pc' = SetupSequence[1]
    /\ UNCHANGED <<doc, readyState, streamVars>>

\* Variant: any statement group of setupStreams may throw.
CanFailAnywhere(p) == p \in {"connect", "pipe:ext", "onboarding", "forward:cap", "phishing"}

\* The statement groups of setupStreams that can throw:
\* extension.runtime.connect; createStream is never called twice with one
\* name on one multiplexer.
CanFail(p) == p = "connect"

\* setupStreams throws: start() rejects and nothing that was set up before
\* is undone. At "connect", pageStream has been constructed by then.
SetupFail ==
    /\ CanFail(pc)
    /\ pc' = "failed"
    /\ transport' = IF pc = "connect" THEN [transport EXCEPT !["page"] = "open"]
                    ELSE transport
    /\ UNCHANGED <<doc, readyState, injected, mux, chan, rbuf, recv, out, terminal,
                   addCurrentTab, obInflight, sendCalls, obLog, phishListener, redirects>>

\* new LocalMessageDuplexStream, extension.runtime.connect, new PortStream,
\* new ObjectMultiplex twice.
CreateStreams ==
    /\ pc = "connect"
    /\ pc' = After(pc)
    /\ transport' = [s \in Sides |-> "open"]
    /\ mux' = [s \in Sides |-> "created"]
    /\ UNCHANGED <<doc, readyState, injected, chan, rbuf, recv, out, terminal,
                   addCurrentTab, obInflight, sendCalls, obLog, phishListener, redirects>>

\* pump(mux, stream, mux, cb)
PipeMux(s) ==
    /\ pc = IF s = "page" THEN "pipe:page" ELSE "pipe:ext"
    /\ pc' = After(pc)
    /\ mux' = [mux EXCEPT ![s] = "open"]
    /\ UNCHANGED <<doc, readyState, injected, transport, chan, rbuf, recv, out, terminal,
                   addCurrentTab, obInflight, sendCalls, obLog, phishListener, redirects>>

\* mux.createStream(n) on the multiplexer of side s.
CreateStream(f, s, n, v) == [f EXCEPT ![s] = [m \in DOMAIN f[s] \cup {n} |->
                                                IF m = n THEN v ELSE f[s][m]]]

\* pageMux.createStream('onboarding'), new Writable, pump.
BindOnboarding ==
    /\ pc = "onboarding"
    /\ pc' = After(pc)
    /\ chan' = CreateStream(chan, SinkSide("onboarding"), "onboarding", "open")
    /\ rbuf' = CreateStream(rbuf, SinkSide("onboarding"), "onboarding", <<>>)
    /\ addCurrentTab' = "open"
    /\ UNCHANGED <<doc, readyState, injected, transport, mux, recv, out, terminal,
                   obInflight, sendCalls, obLog, phishListener, redirects>>

\* forwardTrafficBetweenMuxers(n, pageMux, extensionMux)
ConnectForwarder(n) ==
    /\ pc = CASE n = "provider" -> "forward:provider"
              [] n = "publicConfig" -> "forward:publicConfig"
              [] OTHER -> "forward:cap"
    /\ pc' = After(pc)
    /\ chan' = CreateStream(CreateStream(chan, "page", n, "open"), "ext", n, "open")
    /\ rbuf' = CreateStream(CreateStream(rbuf, "page", n, <<>>), "ext", n, <<>>)
    /\ UNCHANGED <<doc, readyState, injected, transport, mux, recv, out, terminal,
                   addCurrentTab, obInflight, sendCalls, obLog, phishListener, redirects>>

\* extensionMux.createStream('phishing'), once('data', ...)
BindPhishing ==
    /\ pc = "phishing"
    /\ pc' = After(pc)
    /\ chan' = CreateStream(chan, SinkSide("phishing"), "phishing", "open")
    /\ rbuf' = CreateStream(rbuf, SinkSide("phishing"), "phishing", <<>>)
    /\ phishListener' = TRUE
    /\ UNCHANGED <<doc, readyState, injected, transport, mux, recv, out, terminal,
                   addCurrentTab, obInflight, sendCalls, obLog, redirects>>

\* await domIsReady()
AwaitDomIsReady ==
    /\ pc = "domIsReady"
    /\ pc' = domIsReady
    /\ UNCHANGED <<doc, readyState, injected, streamVars>>

\* ------------------------------------------------------------- the bridge

\* start() has run setupStreams: the streams exist.
Running == pc \in {"domwait", "done"}

RECURSIVE SumLen(_, _)
SumLen(f, S) ==
    IF S = {} THEN 0
    ELSE LET n == CHOOSE x \in S : TRUE IN Len(f[n]) + SumLen(f, S \ {n})

\* Frames delivered so far by both peers.
Received == SumLen(recv["page"], WireNames) + SumLen(recv["ext"], WireNames)

\* ObjectMultiplex: a frame read from the transport goes to the substream
\* registered under its name; any other name is dropped.
MuxWrite(s, n, d) ==
    IF n \in DOMAIN chan[s] /\ chan[s][n] = "open"
    THEN [rbuf EXCEPT ![s][n] = Append(@, d)]
    ELSE rbuf

\* The peer on side s delivers a frame.
Recv(s, n, d) ==
    /\ Running
    /\ transport[s] = "open"
    /\ Received < MaxFrames
    /\ recv' = [recv EXCEPT ![s][n] = Append(@, d)]
    /\ rbuf' = MuxWrite(s, n, d)
    /\ UNCHANGED <<docVars, transport, mux, chan, out, terminal, addCurrentTab,
                   obInflight, sendCalls, obLog, phishListener, redirects>>

\* Variant: every pairing piped into the "provider" substream.
PipeTargetProvider(s, n) == <<Other(s), "provider">>

\* The channel on the other multiplexer that channel n of side s pipes into.
PipeTarget(s, n) == <<Other(s), n>>

\* Variant: the substream writes its frames under a fixed name.
WireTagFixed(c) == "unknown"

\* The name a substream wraps the frames it writes in: its own.
WireTag(c) == c[2]

\* forwardTrafficBetweenMuxers(n, pageMux, extensionMux): one frame moves
\* from the substream of side s into the substream of the other side, which
\* writes it, tagged with its own name, to its transport.
Forward(s, n) ==
    /\ Running
    /\ n \in Forwarded
    /\ chan[s][n] = "open"
    /\ rbuf[s][n] # <<>>
    /\ LET t == PipeTarget(s, n)
       IN  /\ chan[t[1]][t[2]] = "open"
           /\ out' = [out EXCEPT ![t[1]][WireTag(t)] = Append(@, Head(rbuf[s][n]))]
    /\ rbuf' = [rbuf EXCEPT ![s][n] = Tail(@)]
    /\ UNCHANGED <<docVars, transport, mux, chan, recv, terminal, addCurrentTab,
                   obInflight, sendCalls, obLog, phishListener, redirects>>


OpenChannels == {c \in Sides \X WireNames : c[2] \in DOMAIN chan[c[1]] /\ chan[c[1]][c[2]] = "open"}

\* Variant: one pump over the forwarded substreams of both multiplexers.
PumpClosureAll(K) ==
    K \cup {c \in Sides \X Forwarded : \E k \in K : k[2] \in Forwarded}

\* pump(channelA, channelB, channelA, cb): when one of the two closes, the
\* other is destroyed with it.
PumpClosure(K) == K \cup {<<Other(c[1]), c[2]>> : c \in {k \in K : k[2] \in Forwarded}}

\* The pipelines that end when the channels K close.
Torn(K) == {c[2] : c \in K \cap OpenChannels}

\* pump is given a completion callback for the multiplexers, the forwarded
\* channels and the onboarding sink; phishingStream only gets a 'data' listener.
HasCompletionHandler(p) == p # "phishing"

\* Variant: the callback called for every stream of the pump that closes.
ReportCountPerStream(p, K, ws) ==
    IF ~HasCompletionHandler(p) THEN 0
    ELSE IF p \in ws THEN 1
    ELSE Cardinality({c \in PumpClosure(K) \cap OpenChannels : c[2] = p})

\* Calls of the completion callback of pipeline p when the channels K close
\* and the multiplexer pumps ws end.
ReportCount(p, K, ws) ==
    IF (p \in Torn(K) \/ p \in ws) /\ HasCompletionHandler(p) THEN 1 ELSE 0

\* The channels K close: every pump riding on them destroys its other
\* stream and calls its completion callback.
Teardown(K, ws) ==
    /\ chan' = [s \in Sides |-> [n \in DOMAIN chan[s] |->
                  IF <<s, n>> \in PumpClosure(K) THEN "destroyed" ELSE chan[s][n]]]
    /\ rbuf' = [s \in Sides |-> [n \in DOMAIN rbuf[s] |->
                  IF <<s, n>> \in PumpClosure(K) THEN <<>> ELSE rbuf[s][n]]]
    /\ terminal' = [p \in Pipelines |-> terminal[p] + ReportCount(p, K, ws)]
    /\ addCurrentTab' = IF "onboarding" \in Torn(K) THEN "destroyed" ELSE addCurrentTab

\* A substream closes or errors by itself.
ChannelFail(s, n) ==
    /\ Running
    /\ <<s, n>> \in OpenChannels
    /\ Teardown({<<s, n>>}, {})
    /\ UNCHANGED <<docVars, transport, mux, recv, out, obInflight, sendCalls,
                   obLog, phishListener, redirects>>

\* Variant: the substreams outlive their multiplexer.
MuxChannelsNone(s) == {}

\* ObjectMultiplex destroys every substream created on it when it ends.
MuxChannels(s) == {c \in OpenChannels : c[1] = s}

\* The transport of side s ends (err = FALSE) or errors: pump destroys the
\* multiplexer, which destroys every substream created on it.
TransportClose(s, err) ==
    /\ Running
    /\ transport[s] = "open"
    /\ transport' = [transport EXCEPT ![s] = IF err THEN "errored" ELSE "ended"]
    /\ mux' = [mux EXCEPT ![s] = "destroyed"]
    /\ Teardown(MuxChannels(s), {MuxLabel(s)})
    /\ UNCHANGED <<docVars, recv, out, obInflight, sendCalls, obLog,
                   phishListener, redirects>>

\* ------------------------------------------------------ the onboarding sink

\* callback(error) of addCurrentTab.write: the Writable errors and the pump
\* that feeds it ends.
WriteFails(chunk, cause, resp) ==
    /\ obLog' = Append(obLog, [chunk |-> chunk, result |-> cause, response |-> resp])
    /\ Teardown({<<SinkSide("onboarding"), "onboarding">>}, {})

\* Variant: every truthy chunk is sent, whatever its type.
WriteBranchNoTypeCheck(chunk) ==
    IF chunk.falsy THEN "malformed" ELSE "send"

\* What write does with a chunk before any response: "malformed",
\* "unrecognized" or "send".
WriteBranch(chunk) ==
    IF chunk.falsy THEN "malformed"
    ELSE IF chunk.type = "registerOnboarding" THEN "send"
    ELSE "unrecognized"

\* Variant: write is entered while an earlier callback is outstanding.
WriteReadyAlways == TRUE

\* A Writable calls write for the next chunk only after the callback of the
\* previous write.
WriteReady == obInflight = <<>>

\* addCurrentTab.write(chunk, _, callback)
OnboardingWrite ==
    /\ Running
    /\ addCurrentTab = "open"
    /\ <<SinkSide("onboarding"), "onboarding">> \in OpenChannels
    /\ WriteReady
    /\ rbuf[SinkSide("onboarding")]["onboarding"] # <<>>
    /\ LET chunk == Head(rbuf[SinkSide("onboarding")]["onboarding"])
       IN  \/ /\ WriteBranch(chunk) \in {"malformed", "unrecognized"}
              /\ WriteFails(chunk, WriteBranch(chunk), <<>>)
              /\ UNCHANGED <<obInflight, sendCalls>>
           \/ /\ WriteBranch(chunk) = "send"
              /\ sendCalls' = Append(sendCalls, [type |-> "metamask:registerOnboarding",
                                                 location |-> doc.href])
              /\ \/ /\ WriteFails(chunk, "sendThrew", <<>>)
                    /\ UNCHANGED obInflight
                 \/ /\ obInflight' = Append(obInflight, chunk)
                    /\ rbuf' = [rbuf EXCEPT ![SinkSide("onboarding")]["onboarding"] = Tail(@)]
                    /\ UNCHANGED <<chan, terminal, addCurrentTab, obLog>>
    /\ UNCHANGED <<docVars, transport, mux, recv, out, phishListener, redirects>>

\* The error handleSendMessageResponse ends with: "none", "responseError"
\* or "lastError".
ResponseError(error, success, lastError) ==
    IF error THEN "responseError"
    ELSE IF ~success /\ lastError THEN "lastError"
    ELSE "none"

\* handleSendMessageResponse(error, success), with extension.runtime.lastError
\* set or not; lastError is read only when both arguments are falsy.
SendMessageResponse(error, success, lastError) ==
    /\ Running
    /\ obInflight # <<>>
    /\ lastError => (~error /\ ~success)
    /\ obInflight' = Tail(obInflight)
    /\ LET cause == ResponseError(error, success, lastError)
           resp == <<[error |-> error, success |-> success]>>
       IN  IF cause = "none"
           THEN /\ obLog' = Append(obLog, [chunk |-> Head(obInflight), result |-> "ack",
                                           response |-> resp])
                /\ UNCHANGED <<chan, rbuf, terminal, addCurrentTab>>
           ELSE WriteFails(Head(obInflight), cause, resp)
    /\ UNCHANGED <<docVars, transport, mux, recv, out, sendCalls, phishListener, redirects>>

\* -------------------------------------------------------- the phishing sink

\* Variant: on('data', ...), the listener stays.
ListenerStays == phishListener

\* once: the listener is removed when it has run.
ListenerAfterData == FALSE

\* phishingStream.once('data', redirectToPhishingWarning): the substream
\* emits one frame; the listener, if still attached, runs and is removed.
PhishingData ==
    /\ Running
    /\ <<SinkSide("phishing"), "phishing">> \in OpenChannels
    /\ rbuf[SinkSide("phishing")]["phishing"] # <<>>
    /\ rbuf' = [rbuf EXCEPT ![SinkSide("phishing")]["phishing"] = Tail(@)]
    /\ redirects' = IF phishListener THEN redirects + 1 ELSE redirects
    /\ phishListener' = ListenerAfterData
    /\ UNCHANGED <<docVars, transport, mux, chan, recv, out, terminal, addCurrentTab,
                   obInflight, sendCalls, obLog>>

\* ------------------------------------------------------------ specification

\* A document that passes the gate, read to the end before the script ran.
BridgeDoc == [doctype |-> <<HtmlName>>, elem |-> <<(<<"H", "T", "M", "L">>)>>,
              href |-> UrlExamplePage]

GateInit ==
    /\ doc \in Docs
    /\ readyState \in {"loading", "interactive", "complete"}
    /\ pc = "load"
    /\ injected = "no"
    /\ NoStreams

GateNext == RunContentScript \/ DOMContentLoaded \/ WindowLoad

SpecGate == GateInit /\ [][GateNext]_vars

\* Documents for the step-by-step run: one that passes the gate, one with an
\* svg top-level element, one without a top-level element, one on the deny-list.
StartDocs ==
    {BridgeDoc,
     [BridgeDoc EXCEPT !.elem = <<(<<"s", "v", "g">>)>>],
     [BridgeDoc EXCEPT !.elem = <<>>],
     [BridgeDoc EXCEPT !.href = UrlDropboxWww]}

StartInit ==
    /\ doc \in StartDocs
    /\ readyState \in {"loading", "interactive", "complete"}
    /\ pc = "load"
    /\ injected = "no"
    /\ NoStreams

\* The top-level code and start() step by step, the document's load events,
\* and frames relayed once the streams are set up.
StartNext ==
    \/ Gate
    \/ InjectScript
    \/ SetupFail
    \/ CreateStreams
    \/ \E s \in Sides : PipeMux(s)
    \/ BindOnboarding
    \/ \E n \in Forwarded : ConnectForwarder(n)
    \/ BindPhishing
    \/ AwaitDomIsReady
    \/ DOMContentLoaded
    \/ WindowLoad
    \/ \E s \in Sides, n \in WireNames : \E d \in DataFor(n) : Recv(s, n, d)
    \/ \E s \in Sides, n \in Forwarded : Forward(s, n)

SpecStart == StartInit /\ [][StartNext]_vars

\* The bridge, from the state the top-level code leaves on BridgeDoc.
Init ==
    /\ doc = BridgeDoc
    /\ readyState = "complete"
    /\ pc = "done"
    /\ injected = "ok"
    /\ transport = Wired.transport
    /\ mux = Wired.mux
    /\ chan = Wired.chan
    /\ rbuf = Wired.rbuf
    /\ addCurrentTab = Wired.addCurrentTab
    /\ phishListener = Wired.phishListener
    /\ recv = NoFrames
    /\ out = NoFrames
    /\ terminal = [p \in Pipelines |-> 0]
    /\ obInflight = <<>>
    /\ sendCalls = <<>>
    /\ obLog = <<>>
    /\ redirects = 0

Next ==
    \/ \E s \in Sides, n \in WireNames : \E d \in DataFor(n) : Recv(s, n, d)
    \/ \E s \in Sides, n \in Forwarded : Forward(s, n)
    \/ \E s \in Sides, n \in WireNames : ChannelFail(s, n)
    \/ \E s \in Sides, err \in BOOLEAN : TransportClose(s, err)
    \/ OnboardingWrite
    \/ \E error \in BOOLEAN, success \in BOOLEAN, lastError \in BOOLEAN :
          SendMessageResponse(error, success, lastError)
    \/ PhishingData

Spec == Init /\ [][Next]_vars

\* ---------------------------------------------------------------- claims

IsPrefix(a, b) == Len(a) <= Len(b) /\ SubSeq(b, 1, Len(a)) = a

\* C1: on each of provider, publicConfig and cap, and in each direction, the
\* frames written to the far transport under that name are a prefix of the
\* frames that arrived under it, in arrival order; while both channels of the
\* pairing are open every arrived frame is either written or still buffered:
\* none is lost, duplicated or reordered.
C1_OrderPreserved ==
    \A s \in Sides : \A n \in {"provider", "publicConfig", "cap"} :
        /\ IsPrefix(out[Other(s)][n], recv[s][n])
        /\ (chan[s][n] = "open" /\ chan[Other(s)][n] = "open")
              => recv[s][n] = out[Other(s)][n] \o rbuf[s][n]

\* Two different provider frames from the page have both reached the
\* extension transport, in order.
C1_Witness ==
    /\ out["ext"]["provider"] = <<Msg("registerOnboarding"), Msg("other")>>
    /\ chan["page"]["provider"] = "open"
    /\ chan["ext"]["provider"] = "open"

\* C2: the two channels of a pairing are open together or closed together,
\* and the pairing's completion callback has been called exactly once when
\* they are closed and not at all while they are open.
C2_ExactlyOneTerminal ==
    \A n \in {"provider", "publicConfig", "cap"} :
        /\ chan["page"][n] = chan["ext"][n]
        /\ terminal[n] = IF chan["page"][n] = "destroyed" THEN 1 ELSE 0

\* Both transports are gone, so both sides of the cap pairing closed, and
\* the pairing reported once.
C2_Witness ==
    /\ transport["page"] # "open"
    /\ transport["ext"] # "open"
    /\ terminal["cap"] = 1

\* C3: a step in which a pairing reports its terminal event while no
\* transport closes leaves both multiplexers, every other channel and its
\* buffer, both sinks and every other pipeline's report count as they were;
\* a multiplexer is destroyed only when its transport is gone.
C3_Containment ==
    /\ [][\A n \in {"provider", "publicConfig", "cap"} :
            (terminal'[n] > terminal[n] /\ transport' = transport) =>
                /\ mux' = mux
                /\ \A s \in Sides : \A m \in DOMAIN chan[s] \ {n} :
                      chan'[s][m] = chan[s][m] /\ rbuf'[s][m] = rbuf[s][m]
                /\ \A p \in Pipelines \ {n} : terminal'[p] = terminal[p]
                /\ addCurrentTab' = addCurrentTab
                /\ phishListener' = phishListener
                /\ obInflight' = obInflight
                /\ out' = out]_vars
    /\ [](\A s \in Sides : mux[s] = "destroyed" => transport[s] # "open")

\* The provider pairing has ended; both multiplexers are open, the cap
\* pairing has relayed a frame and the phishing sink has fired.
C3_Witness ==
    /\ chan["page"]["provider"] = "destroyed"
    /\ terminal["provider"] = 1
    /\ mux = [s \in Sides |-> "open"]
    /\ Len(out["ext"]["cap"]) = 1
    /\ redirects = 1

\* C4: a frame tagged n arriving on side s is appended to the buffer of the
\* substream created under n on that side's multiplexer, when there is one
\* and it is open, and to no other buffer; a frame under any other name
\* changes no buffer; either way multiplexers, channels and transports stay
\* as they were.
C4_Demux ==
    [][\A s \in Sides : \A n \in WireNames :
         Len(recv'[s][n]) = Len(recv[s][n]) + 1 =>
            LET d == recv'[s][n][Len(recv'[s][n])]
                registered ==
                    IF s = "page"
                    THEN n \in {"onboarding", "provider", "publicConfig", "cap"}
                    ELSE n \in {"provider", "publicConfig", "cap", "phishing"}
            IN  /\ registered <=> n \in DOMAIN chan[s]
                /\ mux' = mux /\ transport' = transport /\ chan' = chan
                /\ \A t \in Sides : \A m \in DOMAIN rbuf[t] :
                      rbuf'[t][m] = IF t = s /\ m = n /\ registered /\ chan[s][n] = "open"
                                    THEN Append(rbuf[t][m], d)
                                    ELSE rbuf[t][m]]_vars

\* The page has sent one frame under an unregistered name, which reached no
\* buffer, and one provider frame, which is buffered in the provider substream.
C4_Witness ==
    /\ Len(recv["page"]["unknown"]) = 1
    /\ rbuf["page"] = [Wired.rbuf["page"] EXCEPT !["provider"] = <<Msg("other")>>]
    /\ mux = [s \in Sides |-> "open"]

RegisterChunk(c) == ~c.falsy /\ c.type = "registerOnboarding"

\* C5: every completed write of a falsy chunk ended with the malformed
\* error, every completed write of a chunk of another type with the
\* unrecognized error; sendMessage has been called exactly once per
\* registerOnboarding chunk written, each time with the document's location.
C5_OnboardingPerMessage ==
    /\ \A i \in 1..Len(obLog) :
          /\ obLog[i].chunk.falsy => obLog[i].result = "malformed"
          /\ RegisterChunk(obLog[i].chunk) =>
                obLog[i].result \in {"ack", "sendThrew", "responseError", "lastError"}
          /\ (~obLog[i].chunk.falsy /\ ~RegisterChunk(obLog[i].chunk)) =>
                obLog[i].result = "unrecognized"
    /\ Len(sendCalls) =
          Cardinality({i \in 1..Len(obLog) : RegisterChunk(obLog[i].chunk)}) + Len(obInflight)
    /\ \A j \in 1..Len(sendCalls) :
          sendCalls[j] = [type |-> "metamask:registerOnboarding", location |-> doc.href]

\* A registerOnboarding message was sent and acknowledged, then a message
\* of another type failed; sendMessage was called once.
C5_Witness ==
    /\ Len(obLog) = 2
    /\ obLog[1].chunk = Msg("registerOnboarding") /\ obLog[1].result = "ack"
    /\ obLog[2].chunk = Msg("other") /\ obLog[2].result = "unrecognized"
    /\ Len(sendCalls) = 1

\* C6: redirectToPhishingWarning has been called at most once; while the
\* phishing channel is open it has been called exactly once if the channel
\* has emitted a message and not at all otherwise; it is called only after
\* a frame tagged phishing arrived on the extension transport.
C6_PhishingOneShot ==
    /\ redirects <= 1
    /\ chan["ext"]["phishing"] = "open" =>
          redirects = IF Len(recv["ext"]["phishing"]) > Len(rbuf["ext"]["phishing"])
                      THEN 1 ELSE 0
    /\ redirects = 1 => recv["ext"]["phishing"] # <<>>

\* Two phishing messages have been emitted and the handler ran once.
C6_Witness ==
    /\ chan["ext"]["phishing"] = "open"
    /\ Len(recv["ext"]["phishing"]) = 2
    /\ rbuf["ext"]["phishing"] = <<>>
    /\ redirects = 1

\* C7: once the sink has reported a malformed or unrecognized message, and
\* as long as the page transport is open, the onboarding channel, the sink
\* and the page multiplexer are still open.
C7_RecoveredLocally ==
    (/\ \E i \in 1..Len(obLog) : obLog[i].result \in {"malformed", "unrecognized"}
     /\ transport["page"] = "open")
        => /\ chan["page"]["onboarding"] = "open"
           /\ addCurrentTab = "open"
           /\ mux["page"] = "open"

\* injectScript was attempted and start() wired the streams.
Started == injected # "no" /\ mux = [s \in Sides |-> "open"]

LastFour(t) == SubSeq(t, Len(t) - 3, Len(t))

\* The gate as the claim words it, on the document's own fields.
GateHolds(d) ==
    /\ d.doctype = <<>> \/ d.doctype = <<(<<"h", "t", "m", "l">>)>>
    /\ ~ /\ Len(Pathname(d.href)) >= 4
         /\ LastFour(Pathname(d.href)) \in {<<".", "x", "m", "l">>, <<".", "p", "d", "f">>}
    /\ d.elem # <<>>
    /\ Len(d.elem[1]) = 4
    /\ d.elem[1][1] \in {"h", "H"} /\ d.elem[1][2] \in {"t", "T"}
    /\ d.elem[1][3] \in {"m", "M"} /\ d.elem[1][4] \in {"l", "L"}
    /\ ~blacklistedDomainCheck(d)

HtmlDocument(d) ==
    /\ d.doctype = <<(<<"h", "t", "m", "l">>)>>
    /\ d.elem \in {<<(<<"H", "T", "M", "L">>)>>, <<(<<"h", "t", "m", "l">>)>>}

HostDenied(u) ==
    \E i \in 1..Len(blacklistedDomains) :
        \/ Hostname(u) = blacklistedDomains[i]
        \/ EndsWith(Hostname(u), <<".">> \o blacklistedDomains[i])

\* C9: blacklistedDomainCheck reports the document's URL blocked exactly
\* when its host equals or is a subdomain of a deny-list entry.
C9_DenyListIsHostMatch ==
    pc # "load" => (blacklistedDomainCheck(doc) <=> HostDenied(doc.href))

\* The names of the channels created on the multiplexer of side s.
RidingOn(s) ==
    IF s = "page" THEN {"onboarding", "provider", "publicConfig", "cap"}
                  ELSE {"provider", "publicConfig", "cap", "phishing"}

\* C10 as stated: when a transport is gone its multiplexer and all its
\* channels are closed and every pairing and sink riding on it has reported
\* its terminal event.
C10_AllReport ==
    \A s \in Sides : transport[s] # "open" =>
        /\ mux[s] = "destroyed"
        /\ \A n \in RidingOn(s) : chan[s][n] = "destroyed" /\ terminal[n] >= 1

\* C10, amended: when a transport is gone its multiplexer and all its
\* channels are closed, every forwarder pairing and the onboarding sink
\* riding on it have reported exactly once, and the phishing sink, which
\* has no completion handler, has reported nothing; a multiplexer is only
\* destroyed when its own transport is gone; a transport that is gone stays
\* gone and its multiplexer stays destroyed.
C10_TransportTeardown ==
    /\ [](\A s \in Sides :
            /\ transport[s] # "open" =>
                  /\ mux[s] = "destroyed"
                  /\ \A n \in RidingOn(s) : chan[s][n] = "destroyed"
                  /\ \A n \in RidingOn(s) \ {"phishing"} : terminal[n] = 1
                  /\ terminal[MuxLabel(s)] = 1
            /\ transport[s] = "open" => mux[s] = "open" /\ terminal[MuxLabel(s)] = 0
            /\ terminal["phishing"] = 0)
    /\ [][\A s \in Sides : transport[s] # "open" =>
            transport'[s] = transport[s] /\ mux'[s] = mux[s]]_vars

\* The extension transport has errored: the cap pairing has reported, and
\* the page transport and its multiplexer are still open.
C10_Witness ==
    /\ transport["ext"] = "errored"
    /\ terminal["cap"] = 1
    /\ transport["page"] = "open"
    /\ mux["page"] = "open"

\* The channels of both multiplexers piped to their transports at some time.
Piped(s) == mux[s] \in {"open", "destroyed"}

Connected(n) == \A s \in Sides : n \in DOMAIN chan[s]

\* C11: the setup steps of start() happen in program order: the extension
\* multiplexer is piped only after the page multiplexer, the onboarding sink
\* is bound only after both, provider is connected only after the sink,
\* publicConfig only after provider, cap only after publicConfig, the
\* phishing sink only after cap; no forwarded channel exists on either
\* multiplexer before both multiplexers are piped.
C11_SetupOrder ==
    /\ Piped("ext") => Piped("page")
    /\ addCurrentTab # "none" => Piped("ext")
    /\ \A n \in {"provider", "publicConfig", "cap"} :
          (\E s \in Sides : n \in DOMAIN chan[s]) =>
              Connected(n) /\ Piped("page") /\ Piped("ext")
    /\ Connected("provider") => addCurrentTab # "none"
    /\ Connected("publicConfig") => Connected("provider")
    /\ Connected("cap") => Connected("publicConfig")
    /\ (phishListener \/ "phishing" \in DOMAIN chan["ext"]) => Connected("cap")

\* setupStreams stands between the third forwarder and the phishing sink:
\* everything before is wired, the phishing substream does not exist yet.
C11_Witness ==
    /\ pc = "phishing"
    /\ Connected("cap")
    /\ addCurrentTab = "open"
    /\ "phishing" \notin DOMAIN chan["ext"]
    /\ ~phishListener

Unwired ==
    /\ \A s \in Sides : mux[s] = "none" /\ DOMAIN chan[s] = {}
    /\ addCurrentTab = "none"
    /\ ~phishListener

FullyWired ==
    /\ \A s \in Sides : Piped(s) /\ transport[s] # "none"
    /\ DOMAIN chan["page"] = {"onboarding", "provider", "publicConfig", "cap"}
    /\ DOMAIN chan["ext"] = {"provider", "publicConfig", "cap", "phishing"}
    /\ addCurrentTab # "none"

\* C12: whenever the script is back in the event loop the bridge is either
\* not wired at all or wired completely; when setupStreams has thrown,
\* no multiplexer is piped, no substream exists and no sink is bound.
C12_AllOrNothing ==
    /\ pc = "failed" => Unwired /\ transport["ext"] = "none"
    /\ AtRest => (Unwired \/ FullyWired)
    /\ AtRest /\ FullyWired => pc \in {"domwait", "done"}

\* extension.runtime.connect has thrown after pageStream was constructed.
C12_Witness ==
    /\ pc = "failed"
    /\ transport["page"] = "open"
    /\ Unwired

\* The chunks write has been entered with, in order.
ConsumedChunks == [i \in 1..Len(obLog) |-> obLog[i].chunk] \o obInflight

\* C13: at most one sendMessage call is outstanding; while one is, no step
\* enters write again (sendMessage is not called and the only completion is
\* that of the outstanding chunk); the chunks are consumed in arrival order.
C13_OneAtATime ==
    /\ [](Len(obInflight) <= 1)
    /\ [](IsPrefix(ConsumedChunks, recv[SinkSide("onboarding")]["onboarding"]))
    /\ [][obInflight # <<>> =>
             /\ sendCalls' = sendCalls
             /\ \/ obLog' = obLog /\ obInflight' = obInflight
                \/ /\ Len(obLog') = Len(obLog) + 1
                   /\ obLog'[Len(obLog')].chunk = Head(obInflight)
                   /\ obInflight' = <<>>]_vars

\* One registration awaits its response while the next onboarding message
\* waits in the substream.
C13_Witness ==
    /\ obInflight = <<Msg("registerOnboarding")>>
    /\ rbuf["page"]["onboarding"] = <<Msg("registerOnboarding")>>
    /\ Len(sendCalls) = 1
    /\ obLog = <<>>

\* C14: a write that got a response is acknowledged only when the response
\* reported success and no error; in every other case it ends with an error.
C14_AckOnlyOnSuccess ==
    \A i \in 1..Len(obLog) :
        obLog[i].response # <<>> =>
            IF obLog[i].response[1].success /\ ~obLog[i].response[1].error
            THEN obLog[i].result = "ack"
            ELSE obLog[i].result \in {"responseError", "lastError"}

\* C15 as stated: what the sink consumes are the onboarding frames of the
\* extension transport.
C15_SinkOnExtension ==
    IsPrefix(ConsumedChunks, recv["ext"]["onboarding"])

\* C15, amended: the onboarding substream exists on the page multiplexer
\* only; while it and the sink are open, the onboarding frames that arrived
\* on the page transport are exactly the chunks consumed followed by the
\* chunks still buffered; a frame tagged onboarding arriving on the
\* extension transport changes no buffer and reaches no sink.
C15_SinkOnPage ==
    /\ [](/\ "onboarding" \notin DOMAIN chan["ext"]
          /\ "onboarding" \in DOMAIN chan["page"]
          /\ Len(ConsumedChunks) <= Len(recv["page"]["onboarding"])
          /\ (<<"page", "onboarding">> \in OpenChannels /\ addCurrentTab = "open") =>
                recv["page"]["onboarding"] = ConsumedChunks \o rbuf["page"]["onboarding"])
    /\ [][recv'["ext"]["onboarding"] # recv["ext"]["onboarding"] =>
             /\ rbuf' = rbuf
             /\ obLog' = obLog
             /\ obInflight' = obInflight
             /\ sendCalls' = sendCalls]_vars

\* Both peers sent an onboarding frame; the sink consumed the page's.
C15_Witness ==
    /\ recv["ext"]["onboarding"] = <<Msg("registerOnboarding")>>
    /\ recv["page"]["onboarding"] = <<Msg("other")>>
    /\ Len(obLog) = 1
    /\ obLog[1].chunk = Msg("other")

\* C16: a frame is written to a transport only under one of the three
\* forwarded names, and it is then the oldest unforwarded frame that arrived
\* under the same name on the other transport, payload unchanged; nothing is
\* ever written under onboarding, phishing or an unregistered name.
C16_OnlyForwardedRelayed ==
    /\ [](\A t \in Sides : \A n \in WireNames \ {"provider", "publicConfig", "cap"} :
             out[t][n] = <<>>)
    /\ [](\A t \in Sides : \A n \in {"provider", "publicConfig", "cap"} :
             /\ Len(out[t][n]) <= Len(recv[Other(t)][n])
             /\ \A i \in 1..Len(out[t][n]) : out[t][n][i] = recv[Other(t)][n][i])
    /\ [][\A t \in Sides : \A n \in WireNames :
             out'[t][n] # out[t][n] =>
                 /\ n \in {"provider", "publicConfig", "cap"}
                 /\ rbuf[Other(t)][n] # <<>>
                 /\ out'[t][n] = Append(out[t][n], Head(rbuf[Other(t)][n]))
                 /\ \A u \in Sides : \A m \in WireNames :
                       (u # t \/ m # n) => out'[u][m] = out[u][m]]_vars

\* The page sent a provider frame, which was relayed, and an onboarding
\* frame, which was consumed by the sink and written to no transport.
C16_Witness ==
    /\ recv["page"]["provider"] = <<Msg("other")>>
    /\ recv["page"]["onboarding"] = <<Msg("other")>>
    /\ Len(obLog) = 1
    /\ out = [NoFrames EXCEPT !["ext"]["provider"] = <<Msg("other")>>]

\* What the phishing sink can see: its substream, its buffer, its listener,
\* the redirects so far, the phishing frames of the extension transport, and
\* that transport.
PhishView ==
    [open |-> <<"ext", "phishing">> \in OpenChannels,
     buf |-> IF "phishing" \in DOMAIN rbuf["ext"] THEN rbuf["ext"]["phishing"] ELSE <<>>,
     listener |-> phishListener,
     redirects |-> redirects,
     arrived |-> recv["ext"]["phishing"],
     transport |-> transport["ext"]]

\* The views a step can lead to from view v, given v alone.
PhishSucc(v) ==
    {[v EXCEPT !.arrived = Append(@, Msg("other")),
               !.buf = IF v.open THEN Append(@, Msg("other")) ELSE @]}
    \cup (IF v.open /\ v.buf # <<>>
          THEN {[v EXCEPT !.buf = Tail(@), !.listener = FALSE,
                          !.redirects = IF v.listener THEN @ + 1 ELSE @]}
          ELSE {})
    \cup {[v EXCEPT !.open = FALSE, !.buf = <<>>]}
    \cup {[v EXCEPT !.open = FALSE, !.buf = <<>>, !.transport = x] : x \in {"ended", "errored"}}

\* C17: a step in which a frame arrives on the page transport leaves the
\* phishing sink's view unchanged; redirectToPhishingWarning is called only
\* with the listener attached and a phishing frame of the extension
\* transport in the substream; every change of the view is determined by
\* the view itself, so page-side frames cannot change whether or when the
\* redirect fires.
C17_RedirectOnlyFromExtension ==
    /\ [][recv'["page"] # recv["page"] => PhishView' = PhishView]_vars
    /\ [][redirects' # redirects =>
             /\ redirects' = redirects + 1
             /\ PhishView.listener /\ PhishView.open /\ PhishView.buf # <<>>
             /\ recv["ext"]["phishing"] # <<>>]_vars
    /\ [][PhishView' # PhishView => PhishView' \in PhishSucc(PhishView)]_vars
    /\ [](redirects <= Len(recv["ext"]["phishing"]))

\* The page sent a frame tagged phishing and nothing happened; the
\* extension sent one and the redirect fired.
C17_Witness ==
    /\ Len(recv["page"]["phishing"]) = 1
    /\ Len(recv["ext"]["phishing"]) = 1
    /\ redirects = 1

\* C18: when start() reaches domIsReady, and ever after, the bridge is
\* completely wired; start() waits exactly while the document is loading:
\* it completes at once when readyState is interactive or complete and
\* otherwise at DOMContentLoaded; while it waits, a buffered frame can be
\* relayed.
C18_ReadinessDoesNotGateSetup ==
    /\ [](pc \in {"domIsReady", "domwait", "done"} => FullyWired)
    /\ [](pc = "domwait" => readyState = "loading")
    /\ [][pc = "domIsReady" =>
             pc' = IF readyState \in {"interactive", "complete"} THEN "done" ELSE "domwait"]_vars
    /\ [][pc = "domwait" =>
             (pc' = "done" <=> (readyState = "loading" /\ readyState' = "interactive"))]_vars
    /\ [](\A s \in Sides :
             (pc = "domwait" /\ "provider" \in DOMAIN rbuf[s] /\ rbuf[s]["provider"] # <<>>)
                 => ENABLED Forward(s, "provider"))

\* The document is still loading, start() waits for DOMContentLoaded, and a
\* provider frame of the page has been written to the extension transport.
C18_Witness ==
    /\ readyState = "loading"
    /\ pc = "domwait"
    /\ out["ext"]["provider"] = <<Msg("other")>>

\* C19: once the gate has run: for a document without a top-level element
\* documentElementCheck returns true and the gate is decided by the other
\* three checks; for a document with one it returns true exactly when the
\* tag name is html in any letter case.
C19_AbsentElementPasses ==
    pc # "load" =>
        /\ doc.elem = <<>> =>
              /\ documentElementCheckOutcome(doc) = "true"
              /\ Started <=> (doctypeCheck(doc) /\ suffixCheck(doc)
                                /\ ~blacklistedDomainCheck(doc))
        /\ doc.elem # <<>> =>
              (documentElementCheckOutcome(doc) = "true"
                  <=> /\ Len(doc.elem[1]) = 4
                      /\ doc.elem[1][1] \in {"h", "H"} /\ doc.elem[1][2] \in {"t", "T"}
                      /\ doc.elem[1][3] \in {"m", "M"} /\ doc.elem[1][4] \in {"l", "L"})

====
